---- MODULE Spec2Model ----
(***************************************************************************)
(* The wallet ledger of src/mods/wallet.rs: name_exists,                   *)
(* get_wallet_address, update_balance and get_balance over the "wallets"   *)
(* collection of one JSON document, called from two threads.  Every        *)
(* FileOps call (parse, write, write_balance) is one step on the document; *)
(* the scans and the arithmetic between two FileOps calls are local to the *)
(* calling thread.                                                         *)
(***************************************************************************)
EXTENDS Integers, Sequences, FiniteSets, TLC

\* ------------------------------------------------------------- bounds
\* Width of the signed integer that stands for i64 (two's complement).
IntBits == 3
\* Most records the document holds.
MaxWallets == 2
\* Most ledger calls started in one behaviour.
MaxCalls == 2
\* Longest address written to the document.
MaxAddrLen == 1

\* ------------------------------------------------------------- values
Threads == {"t1", "t2"}

I64Min == -(2 ^ (IntBits - 1))
I64Max == (2 ^ (IntBits - 1)) - 1
I64 == I64Min .. I64Max

\* Account names (the names of the tests).
Names == {"Bingo", "Bingo2"}

\* Characters: the double quote and the backslash, which JSON escapes, and
\* a plain one.  An address is written with the plain one and the quote.
DQ == "\""
BS == "\\"
Chars == {"0", DQ}

RECURSIVE StringsUpTo(_)
StringsUpTo(n) ==
    IF n = 0 THEN {<<>>}
    ELSE LET shorter == StringsUpTo(n - 1)
         IN  shorter \cup {Append(s, c) : s \in {x \in shorter : Len(x) = n - 1}, c \in Chars}

Addresses == StringsUpTo(MaxAddrLen) \ {<<>>}
\* The address both tests write ("0" repeated), used while two threads run.
TestAddress == <<"0">>

\* Balance of the wallets written while two threads run (the tests write
\* one balance, 100, for both wallets).
OpeningBalance == 1
\* Balances of the wallets written for the lookups.
NewBalances == {0, 1}
\* Amounts passed to update_balance (amount: i64).
Amounts == {1, I64Max}
\* op strings passed to update_balance: the two it knows and another one.
Ops == {"add", "subtract", "multiply"}

Fns == {"name_exists", "get_wallet_address", "update_balance", "get_balance"}

\* ------------------------------------------------------------- state
VARIABLES
    wallets,    \* the "wallets" array of the document at `path`
    pc,         \* where each thread is in its current call
    call,       \* the current (or last) call of each thread and its arguments
    base_data,  \* the tree a thread got from its FileOps::parse (update_balance)
    ret,        \* what the last call of each thread returned
    stdout,     \* what the current call of each thread printed
    persists,   \* FileOps::write_balance calls made by the current call
    calls       \* ledger calls started so far

vars == <<wallets, pc, call, base_data, ret, stdout, persists, calls>>

\* ------------------------------------------------------------- Wallet
Wallet(n, a, b) == [name |-> n, address |-> a, balance |-> b]

\* Positions of the records whose "name" equals name.
Matches(doc, name) == {i \in 1 .. Len(doc) : doc[i].name = name}

Min(S) == CHOOSE x \in S : \A y \in S : x <= y

\* ------------------------------------------------------------- FileOps
\* FileOps::parse(path): the document as a tree.
parse(doc) == doc

\* FileOps::write(path, "wallets", &wallet): the record is appended.
write(doc, wallet) == Append(doc, wallet)

\* FileOps::write_balance(path, name, balance): the balance of the record
\* matching name is replaced.
write_balance(doc, name, balance) ==
    IF Matches(doc, name) = {} THEN doc
    ELSE LET i == Min(Matches(doc, name))
         IN  [doc EXCEPT ![i].balance = balance]

\* ------------------------------------------------------------- serde_json
\* One character as serde_json writes it inside a string.
EscapeChar(c) == IF c \in {DQ, BS} THEN <<BS, c>> ELSE <<c>>

RECURSIVE Escape(_)
Escape(s) == IF s = <<>> THEN <<>> ELSE EscapeChar(Head(s)) \o Escape(Tail(s))

\* to_string without the escaping.
to_string_raw(s) == <<DQ>> \o s \o <<DQ>>

\* Value::String(s).to_string(): the JSON text of the string.
to_string(s) == <<DQ>> \o Escape(s) \o <<DQ>>

\* ------------------------------------------------------------- Wallet::*
\* The loop of name_exists with a `return false` inside the loop.
ScanExistsFirstOnly(doc, name) == doc # <<>> /\ Head(doc).name = name

\* The loop of name_exists: true at the first record named name.
RECURSIVE ScanExists(_, _)
ScanExists(doc, name) ==
    IF doc = <<>> THEN FALSE
    ELSE IF Head(doc).name = name THEN TRUE
    ELSE ScanExists(Tail(doc), name)

\* name_exists that returns true at the first record, whatever its name.
name_exists_any(doc, name) == parse(doc) # <<>>

\* Wallet::name_exists(path, name).
name_exists(doc, name) == ScanExists(parse(doc), name)

\* The loop of get_wallet_address assigning instead of push_str: last match.
RECURSIVE ScanAddressLast(_, _, _)
ScanAddressLast(doc, name, wallet_name) ==
    IF doc = <<>> THEN wallet_name
    ELSE ScanAddressLast(Tail(doc), name,
                         IF Head(doc).name = name
                         THEN to_string(Head(doc).address)
                         ELSE wallet_name)

\* The loop of get_wallet_address pushing the address itself (as_str).
RECURSIVE ScanAddressRaw(_, _, _)
ScanAddressRaw(doc, name, wallet_name) ==
    IF doc = <<>> THEN wallet_name
    ELSE ScanAddressRaw(Tail(doc), name,
                        IF Head(doc).name = name
                        THEN wallet_name \o Head(doc).address
                        ELSE wallet_name)

\* The loop of get_wallet_address: push_str on every record named name.
RECURSIVE ScanAddress(_, _, _)
ScanAddress(doc, name, wallet_name) ==
    IF doc = <<>> THEN wallet_name
    ELSE ScanAddress(Tail(doc), name,
                     IF Head(doc).name = name
                     THEN wallet_name \o to_string(Head(doc).address)
                     ELSE wallet_name)

\* The loop of get_balance and of update_balance: the first record named
\* name, 0 when there is none.
RECURSIVE ScanFirst(_, _, _)
ScanFirst(doc, name, i) ==
    IF i > Len(doc) THEN 0
    ELSE IF doc[i].name = name THEN i
    ELSE ScanFirst(doc, name, i + 1)

None == [tag |-> "None"]
Some(v) == [tag |-> "Some", val |-> v]
Bool(b) == [tag |-> "bool", val |-> b]
Unit == [tag |-> "unit"]
Pending == [tag |-> "pending"]
Panicked == [tag |-> "panic"]

\* The else branch of get_balance on the tree it parsed.
first_balance(tree, name) ==
    LET i == ScanFirst(tree, name, 1)
    IN  IF i = 0 THEN None ELSE Some(tree[i].balance)

\* get_balance(path, name) on one document.
get_balance(doc, name) ==
    IF ~name_exists(doc, name) THEN None
    ELSE first_balance(parse(doc), name)

\* The arithmetic without its second if.
NewBalanceNoSubtract(balance, amount, op) ==
    IF op = "add" THEN balance + amount ELSE balance

\* The arithmetic as if/else: every op but "add" subtracts.
NewBalanceElseSubtract(balance, amount, op) ==
    IF op = "add" THEN balance + amount ELSE balance - amount

\* The two ifs of update_balance on the balance it read.
NewBalance(balance, amount, op) ==
    LET added == IF op = "add" THEN balance + amount ELSE balance
    IN  IF op = "subtract" THEN added - amount ELSE added

\* i64 arithmetic without overflow checks.
Wrap(x) == ((x - I64Min) % (2 ^ IntBits)) + I64Min

\* The loop reading the balance from the document again when it writes.
update_loop_fresh(doc, tree, name, amount, op) ==
    LET i == ScanFirst(doc, name, 1)
    IN  IF i = 0 THEN [doc |-> doc, writes |-> 0]
        ELSE [doc |-> write_balance(doc, name,
                                    Wrap(NewBalance(doc[i].balance, amount, op))),
              writes |-> 1]

\* The loop writing the tree it parsed back as the whole document.
update_loop_whole_tree(doc, tree, name, amount, op) ==
    LET i == ScanFirst(tree, name, 1)
    IN  IF i = 0 THEN [doc |-> doc, writes |-> 0]
        ELSE [doc |-> write_balance(tree, name,
                                    Wrap(NewBalance(tree[i].balance, amount, op))),
              writes |-> 1]

\* The loop without its break: one write_balance for every record named name.
RECURSIVE LoopNoBreak(_, _, _, _, _, _)
LoopNoBreak(acc, tree, name, amount, op, i) ==
    IF i > Len(tree) THEN acc
    ELSE LoopNoBreak(
           IF tree[i].name = name
           THEN [doc |-> write_balance(acc.doc, name,
                                       Wrap(NewBalance(tree[i].balance, amount, op))),
                 writes |-> acc.writes + 1]
           ELSE acc,
           tree, name, amount, op, i + 1)

update_loop_no_break(doc, tree, name, amount, op) ==
    LoopNoBreak([doc |-> doc, writes |-> 0], tree, name, amount, op, 1)

\* The loop of update_balance over the tree it parsed: at the first record
\* named name, the arithmetic, one FileOps::write_balance on the document,
\* break.  doc is the document after the loop, writes the write_balance calls.
update_loop(doc, tree, name, amount, op) ==
    LET i == ScanFirst(tree, name, 1)
    IN  IF i = 0 THEN [doc |-> doc, writes |-> 0]
        ELSE [doc |-> write_balance(doc, name,
                                    Wrap(NewBalance(tree[i].balance, amount, op))),
              writes |-> 1]

\* Whether the += or -= of the loop overflows i64.
Overflows(tree, name, amount, op) ==
    LET i == ScanFirst(tree, name, 1)
    IN  i # 0 /\ NewBalance(tree[i].balance, amount, op) \notin I64

\* ------------------------------------------------------------- Init
Init ==
    /\ wallets = <<>>
    /\ pc = [t \in Threads |-> "idle"]
    /\ call = [t \in Threads |-> [fn |-> "none", name |-> "", amount |-> 0, op |-> ""]]
    /\ base_data = [t \in Threads |-> <<>>]
    /\ ret = [t \in Threads |-> Pending]
    /\ stdout = [t \in Threads |-> ""]
    /\ persists = [t \in Threads |-> 0]
    /\ calls = 0

\* ------------------------------------------------------------- actions
\* FileOps::write of a new Wallet, as the tests do before they look it up.
Insert(n, a, b) ==
    /\ Len(wallets) < MaxWallets
    /\ wallets' = write(wallets, Wallet(n, a, b))
    /\ UNCHANGED <<pc, call, base_data, ret, stdout, persists, calls>>

\* A thread enters one of the four functions.
Call(t, fn, n, amount, op) ==
    /\ pc[t] \in {"idle", "done"}
    /\ calls < MaxCalls
    /\ calls' = calls + 1
    /\ call' = [call EXCEPT ![t] = [fn |-> fn, name |-> n, amount |-> amount, op |-> op]]
    /\ pc' = [pc EXCEPT ![t] = "name_exists"]
    /\ base_data' = [base_data EXCEPT ![t] = <<>>]
    /\ ret' = [ret EXCEPT ![t] = Pending]
    /\ stdout' = [stdout EXCEPT ![t] = ""]
    /\ persists' = [persists EXCEPT ![t] = 0]
    /\ UNCHANGED wallets

\* Wallet::name_exists, called directly or as the guard of the other three.
NameExists(t) ==
    /\ pc[t] = "name_exists"
    /\ LET found == name_exists(wallets, call[t].name)
           fn == call[t].fn
       IN  /\ pc' = [pc EXCEPT ![t] = IF fn # "name_exists" /\ found THEN "parse" ELSE "done"]
           /\ ret' = [ret EXCEPT ![t] =
                        IF fn = "name_exists" THEN Bool(found)
                        ELSE IF found THEN Pending
                        ELSE IF fn = "update_balance" THEN Unit
                        ELSE None]
           /\ stdout' = [stdout EXCEPT ![t] =
                        IF fn = "update_balance" /\ ~found THEN call[t].name ELSE ""]
    /\ UNCHANGED <<wallets, call, base_data, persists, calls>>

\* The else branch of get_wallet_address: parse, scan, return.
GetWalletAddress(t) ==
    /\ pc[t] = "parse"
    /\ call[t].fn = "get_wallet_address"
    /\ ret' = [ret EXCEPT ![t] = Some(ScanAddress(parse(wallets), call[t].name, <<>>))]
    /\ pc' = [pc EXCEPT ![t] = "done"]
    /\ UNCHANGED <<wallets, call, base_data, stdout, persists, calls>>

\* The else branch of get_balance: parse, scan, return.
GetBalance(t) ==
    /\ pc[t] = "parse"
    /\ call[t].fn = "get_balance"
    /\ ret' = [ret EXCEPT ![t] = first_balance(parse(wallets), call[t].name)]
    /\ pc' = [pc EXCEPT ![t] = "done"]
    /\ UNCHANGED <<wallets, call, base_data, stdout, persists, calls>>

\* The else branch of update_balance, up to the loop: FileOps::parse.
UpdateParse(t) ==
    /\ pc[t] = "parse"
    /\ call[t].fn = "update_balance"
    /\ base_data' = [base_data EXCEPT ![t] = parse(wallets)]
    /\ pc' = [pc EXCEPT ![t] = "write_balance"]
    /\ UNCHANGED <<wallets, call, ret, stdout, persists, calls>>

\* The loop of update_balance, then the return.  An overflowing += or -=
\* wraps when the build has no overflow checks.
UpdateWrite(t) ==
    /\ pc[t] = "write_balance"
    /\ LET after == update_loop(wallets, base_data[t], call[t].name,
                                call[t].amount, call[t].op)
       IN  /\ wallets' = after.doc
           /\ persists' = [persists EXCEPT ![t] = @ + after.writes]
    /\ ret' = [ret EXCEPT ![t] = Unit]
    /\ pc' = [pc EXCEPT ![t] = "done"]
    /\ base_data' = [base_data EXCEPT ![t] = <<>>]
    /\ UNCHANGED <<call, stdout, calls>>

\* The same loop in a build with overflow checks: an overflowing += or -=
\* panics before FileOps::write_balance is reached.
UpdatePanic(t) ==
    /\ pc[t] = "write_balance"
    /\ Overflows(base_data[t], call[t].name, call[t].amount, call[t].op)
    /\ ret' = [ret EXCEPT ![t] = Panicked]
    /\ pc' = [pc EXCEPT ![t] = "panicked"]
    /\ base_data' = [base_data EXCEPT ![t] = <<>>]
    /\ UNCHANGED <<wallets, call, stdout, persists, calls>>

Next ==
    \/ \E n \in Names : Insert(n, TestAddress, OpeningBalance)
    \/ \E t \in Threads, n \in Names :
          \/ \E fn \in Fns \ {"update_balance"} : Call(t, fn, n, 0, "")
          \/ \E amount \in Amounts, op \in Ops : Call(t, "update_balance", n, amount, op)
    \/ \E t \in Threads : NameExists(t)
    \/ \E t \in Threads : GetWalletAddress(t)
    \/ \E t \in Threads : GetBalance(t)
    \/ \E t \in Threads : UpdateParse(t)
    \/ \E t \in Threads : UpdateWrite(t)
    \/ \E t \in Threads : UpdatePanic(t)

Spec == Init /\ [][Next]_vars

\* One thread looking up what was written: no update_balance, every address.
NextLookup ==
    \/ \E n \in Names, a \in Addresses, b \in NewBalances : Insert(n, a, b)
    \/ \E n \in Names, fn \in Fns \ {"update_balance"} : Call("t1", fn, n, 0, "")
    \/ NameExists("t1")
    \/ GetWalletAddress("t1")
    \/ GetBalance("t1")

SpecLookup == Init /\ [][NextLookup]_vars

\* ------------------------------------------------------------- properties
\* The first record named name, by position.
First(doc, name) == Min(Matches(doc, name))
Bal(doc, name) == doc[First(doc, name)].balance
Found(doc, name) == Matches(doc, name) # {}

\* B + amt for "add", B - amt for "subtract", in the integers.
Exact(b, amount, op) == IF op = "add" THEN b + amount ELSE b - amount

\* Thread t takes the step that ends the loop of update_balance.
LoopStep(t) == pc[t] = "write_balance" /\ pc'[t] # "write_balance"

\* C7: name_exists returns true exactly when some record of the document it
\* parses has the name.
ExistsIsExact ==
    [][\A t \in Threads :
         (pc[t] = "name_exists" /\ call[t].fn = "name_exists" /\ pc'[t] = "done")
         => /\ ret'[t].tag = "bool"
            /\ ret'[t].val <=> Found(wallets, call[t].name)]_vars

WitExists ==
    \E t, u \in Threads :
        /\ pc[t] = "done" /\ call[t].fn = "name_exists"
        /\ pc[u] = "done" /\ call[u].fn = "name_exists"
        /\ ret[t].tag = "bool" /\ ret[t].val /\ Found(wallets, call[t].name)
        /\ ret[u].tag = "bool" /\ ~ret[u].val /\ ~Found(wallets, call[u].name)
        /\ wallets # <<>>

\* C3: update_balance with a name no record has ends at the name_exists
\* guard: it prints the name, makes no write_balance call and leaves the
\* document as it is.
MissingAccountNoOp ==
    [][\A t \in Threads :
         (/\ pc[t] = "name_exists" /\ pc'[t] # "name_exists"
          /\ call[t].fn = "update_balance"
          /\ ~Found(wallets, call[t].name))
         => /\ wallets' = wallets
            /\ pc'[t] = "done"
            /\ persists'[t] = 0
            /\ stdout'[t] = call[t].name
            /\ ret'[t] = Unit]_vars

WitMissingAccount ==
    \E t \in Threads :
        /\ pc[t] = "done" /\ call[t].fn = "update_balance"
        /\ stdout[t] = call[t].name
        /\ persists[t] = 0
        /\ wallets # <<>> /\ ~Found(wallets, call[t].name)

\* C1 as stated: an update_balance with "add" or "subtract" that nothing
\* interleaves with returns, and get_balance then gives B + amt or B - amt,
\* for every amount.
CreditDebitExact ==
    [][\A t \in Threads :
         (/\ LoopStep(t) /\ base_data[t] = wallets
          /\ call[t].op \in {"add", "subtract"})
         => /\ pc'[t] = "done"
            /\ get_balance(wallets', call[t].name)
                 = Some(Exact(Bal(wallets, call[t].name), call[t].amount, call[t].op))]_vars

\* C1 amended: the same, for the amounts whose B + amt or B - amt is an i64.
CreditDebitExactInRange ==
    [][\A t \in Threads :
         (/\ LoopStep(t) /\ base_data[t] = wallets
          /\ call[t].op \in {"add", "subtract"}
          /\ Exact(Bal(wallets, call[t].name), call[t].amount, call[t].op) \in I64)
         => /\ pc'[t] = "done"
            /\ get_balance(wallets', call[t].name)
                 = Some(Exact(Bal(wallets, call[t].name), call[t].amount, call[t].op))]_vars

\* The only call so far was a debit of more than the balance: it returned
\* and the balance is negative.
WitOverdraft ==
    \E t \in Threads :
        /\ calls = 1 /\ pc[t] = "done" /\ call[t].fn = "update_balance"
        /\ call[t].op = "subtract" /\ call[t].amount > OpeningBalance
        /\ persists[t] = 1
        /\ Cardinality(Matches(wallets, call[t].name)) = 1
        /\ get_balance(wallets, call[t].name) = Some(OpeningBalance - call[t].amount)

\* C10: with an op that is neither "add" nor "subtract" the loop still makes
\* its write_balance call and returns; the balance written is the balance
\* read, so a document nobody changed in between stays as it was.
UnknownOpWritesBack ==
    [][\A t \in Threads :
         (LoopStep(t) /\ call[t].op \notin {"add", "subtract"})
         => /\ pc'[t] = "done"
            /\ persists'[t] = persists[t] + 1
            /\ Bal(wallets', call[t].name) = Bal(base_data[t], call[t].name)
            /\ (Bal(wallets, call[t].name) = Bal(base_data[t], call[t].name)
                  => wallets' = wallets)]_vars

WitUnknownOp ==
    \E t \in Threads :
        /\ calls = 1 /\ pc[t] = "done" /\ call[t].fn = "update_balance"
        /\ call[t].op = "multiply" /\ call[t].amount = I64Max
        /\ persists[t] = 1
        /\ get_balance(wallets, call[t].name) = Some(OpeningBalance)

\* What the loop writes for the balance b it read: b + amt or b - amt in i64
\* arithmetic for "add" and "subtract", b itself for any other op.
Applied(b, amount, op) ==
    IF op \in {"add", "subtract"} THEN Wrap(Exact(b, amount, op)) ELSE b

\* C2: nothing checks the document between the parse and the write_balance
\* of one update_balance: when the balance was changed after the thread
\* read it, the thread still writes the balance computed from what it read,
\* and the change made in between is lost.
StaleWriteOverwrites ==
    [][\A t \in Threads :
         (/\ LoopStep(t) /\ pc'[t] = "done"
          /\ Bal(wallets, call[t].name) # Bal(base_data[t], call[t].name))
         => Bal(wallets', call[t].name)
              = Applied(Bal(base_data[t], call[t].name), call[t].amount, call[t].op)]_vars

\* Two calls, each adding 1 to the same account, both returned, and the
\* balance went up by 1 only.
WitLostUpdate ==
    \E t, u \in Threads :
        /\ t # u /\ calls = 2
        /\ pc[t] = "done" /\ pc[u] = "done"
        /\ call[t] = [fn |-> "update_balance", name |-> call[u].name, amount |-> 1, op |-> "add"]
        /\ call[u] = call[t]
        /\ persists[t] = 1 /\ persists[u] = 1
        /\ Found(wallets, call[t].name)
        /\ Bal(wallets, call[t].name) = OpeningBalance + 1

\* C8: when the only two calls are update_balance calls on two different
\* accounts and both have returned, however their steps interleaved, each
\* account holds the balance its own call gives when run alone.
DifferentAccountsIndependent ==
    \A t, u \in Threads :
        (/\ t # u /\ calls = 2
         /\ pc[t] = "done" /\ pc[u] = "done"
         /\ call[t].fn = "update_balance" /\ call[u].fn = "update_balance"
         /\ persists[t] = 1 /\ persists[u] = 1
         /\ call[t].name # call[u].name)
        => Bal(wallets, call[t].name)
             = Applied(OpeningBalance, call[t].amount, call[t].op)

WitIndependent ==
    \E t, u \in Threads :
        /\ t # u /\ calls = 2
        /\ pc[t] = "done" /\ pc[u] = "done"
        /\ call[t].fn = "update_balance" /\ call[u].fn = "update_balance"
        /\ persists[t] = 1 /\ persists[u] = 1
        /\ call[t].name # call[u].name
        /\ call[t].op = "add" /\ call[u].op = "subtract"
        /\ Bal(wallets, call[t].name) = OpeningBalance + call[t].amount
        /\ Bal(wallets, call[u].name) = OpeningBalance - call[u].amount

\* Same records in the same order with the same names and addresses.
ShapeKept ==
    /\ Len(wallets') = Len(wallets)
    /\ \A i \in 1 .. Len(wallets) :
          /\ wallets'[i].name = wallets[i].name
          /\ wallets'[i].address = wallets[i].address

\* C9: every step but the FileOps::write of a new wallet keeps the records,
\* their order, names and addresses; an update_balance that returns from its
\* loop has made one write_balance call, which gave the first record of its
\* name the balance computed from the first record of that name in the tree
\* it parsed, and no other balance has changed; no other step changes the
\* document.
OnlyFirstMatchUpdated ==
    [][\/ /\ Len(wallets') = Len(wallets) + 1
           /\ SubSeq(wallets', 1, Len(wallets)) = wallets
           /\ \A t \in Threads : pc'[t] = pc[t]
        \/ /\ ShapeKept
           /\ \A t \in Threads :
                 (LoopStep(t) /\ pc'[t] = "done")
                 => /\ persists'[t] = 1
                    /\ Bal(wallets', call[t].name)
                         = Applied(Bal(base_data[t], call[t].name),
                                   call[t].amount, call[t].op)
                    /\ \A i \in 1 .. Len(wallets) :
                          i # First(wallets, call[t].name)
                          => wallets'[i].balance = wallets[i].balance
           /\ (\A t \in Threads : ~(LoopStep(t) /\ pc'[t] = "done"))
                 => wallets' = wallets]_vars

\* Two records of one name, an update_balance on it has returned: the first
\* has the new balance, the second the one it was written with.
WitFirstMatchOnly ==
    \E t \in Threads :
        /\ calls = 1 /\ pc[t] = "done" /\ call[t].fn = "update_balance"
        /\ call[t].op = "add" /\ call[t].amount = 1
        /\ persists[t] = 1
        /\ Len(wallets) = 2
        /\ wallets[1].name = call[t].name /\ wallets[2].name = call[t].name
        /\ wallets[1].balance = OpeningBalance + 1
        /\ wallets[2].balance = OpeningBalance

\* ------------------------------------------------------------- lookups
\* The string a JSON string body stands for; ok is false when the body is no
\* JSON string body (a bare quote, a backslash with nothing to escape).
RECURSIVE JsonDecode(_)
JsonDecode(body) ==
    IF body = <<>> THEN [ok |-> TRUE, s |-> <<>>]
    ELSE IF Head(body) = DQ THEN [ok |-> FALSE, s |-> <<>>]
    ELSE IF Head(body) = BS
         THEN IF Len(body) < 2 \/ body[2] \notin {DQ, BS}
              THEN [ok |-> FALSE, s |-> <<>>]
              ELSE LET rest == JsonDecode(SubSeq(body, 3, Len(body)))
                   IN  [ok |-> rest.ok, s |-> <<body[2]>> \o rest.s]
    ELSE LET rest == JsonDecode(Tail(body))
         IN  [ok |-> rest.ok, s |-> <<Head(body)>> \o rest.s]

\* The characters of s that JSON escapes.
Escaped(s) == {i \in 1 .. Len(s) : s[i] \in {DQ, BS}}

\* Thread t takes the step that returns from get_wallet_address with Some.
AddressStep(t) ==
    pc[t] = "parse" /\ call[t].fn = "get_wallet_address" /\ pc'[t] = "done"

\* Thread t takes the step that returns from get_balance with a balance.
BalanceStep(t) ==
    pc[t] = "parse" /\ call[t].fn = "get_balance" /\ pc'[t] = "done"

Only(doc, name) == Cardinality(Matches(doc, name)) = 1
Two(doc, name) == Cardinality(Matches(doc, name)) = 2
Second(doc, name) == Min(Matches(doc, name) \ {First(doc, name)})

AddressLengthPlusTwo ==
    [][\A t \in Threads :
         (AddressStep(t) /\ Only(wallets, call[t].name))
         => /\ ret'[t].tag = "Some"
            /\ Len(ret'[t].val)
                 = Len(wallets[First(wallets, call[t].name)].address) + 2]_vars

\* C6 amended: the length is L + 2 and one more for every double quote or
\* backslash of the address; so L + 2 for an address that has none.
AddressLengthWithEscapes ==
    [][\A t \in Threads :
         (AddressStep(t) /\ Only(wallets, call[t].name))
         => LET a == wallets[First(wallets, call[t].name)].address
            IN  /\ ret'[t].tag = "Some"
                /\ Len(ret'[t].val) = Len(a) + 2 + Cardinality(Escaped(a))
                /\ (Escaped(a) = {} => Len(ret'[t].val) = Len(a) + 2)]_vars

WitAddressLength ==
    \E t \in Threads :
        /\ pc[t] = "done" /\ call[t].fn = "get_wallet_address"
        /\ Only(wallets, call[t].name)
        /\ LET a == wallets[First(wallets, call[t].name)].address
           IN  /\ Escaped(a) = {} /\ Len(a) = MaxAddrLen
               /\ ret[t].tag = "Some" /\ Len(ret[t].val) = Len(a) + 2

\* C4 as stated: with two records named N, get_balance returns the balance
\* of the first and get_wallet_address the address of the second (as it is,
\* or as its JSON text).
LastAddressWins ==
    [][\A t \in Threads :
         /\ (BalanceStep(t) /\ Two(wallets, call[t].name))
             => ret'[t] = Some(wallets[First(wallets, call[t].name)].balance)
         /\ (AddressStep(t) /\ Two(wallets, call[t].name))
             => /\ ret'[t].tag = "Some"
                /\ ret'[t].val \in
                     {wallets[Second(wallets, call[t].name)].address,
                      to_string(wallets[Second(wallets, call[t].name)].address)}]_vars

\* C4 amended: with two records named N, get_balance returns the balance of
\* the first and get_wallet_address the JSON text of the first address
\* followed by the JSON text of the second.
BothAddressesJoined ==
    [][\A t \in Threads :
         /\ (BalanceStep(t) /\ Two(wallets, call[t].name))
             => ret'[t] = Some(wallets[First(wallets, call[t].name)].balance)
         /\ (AddressStep(t) /\ Two(wallets, call[t].name))
             => /\ ret'[t].tag = "Some"
                /\ ret'[t].val
                     = to_string(wallets[First(wallets, call[t].name)].address)
                       \o to_string(wallets[Second(wallets, call[t].name)].address)]_vars

WitDuplicateName ==
    \E t \in Threads :
        /\ pc[t] = "done" /\ call[t].fn = "get_wallet_address"
        /\ Len(wallets) = 2
        /\ wallets[1].name = call[t].name /\ wallets[2].name = call[t].name
        /\ wallets[1].address # wallets[2].address
        /\ wallets[1].balance # wallets[2].balance
        /\ get_balance(wallets, call[t].name) = Some(wallets[1].balance)
        /\ ret[t].tag = "Some"
        /\ ret[t].val = to_string(wallets[1].address) \o to_string(wallets[2].address)

====
